---------------------------- MODULE Spec2Model ----------------------------
(***************************************************************************)
(* rsync-tui: the interactive browser state machine and the transfer       *)
(* engine of src/rsync-tui.py.                                             *)
(*                                                                         *)
(* Contexts of execution:                                                  *)
(*   - the asyncio event loop runs the key handlers (lines 242-319) and    *)
(*     the coroutines of the 'd' binding / rsync_pull; each of its steps   *)
(*     runs from one suspension point to the next and is one action;       *)
(*   - every transfer has a reader thread (lines 137-145); the interpreter *)
(*     may switch threads between two statements, so a reader is modelled  *)
(*     statement group by statement group;                                 *)
(*   - every transfer has an external process (the transfer tool).         *)
(*                                                                         *)
(* A path is the sequence of its tokens, "/" being the separator token:    *)
(* "/u/logs" is <<"/", "u", "/", "logs">>.  The os.path functions are      *)
(* written out on that representation.                                     *)
(***************************************************************************)
EXTENDS Integers, Sequences, FiniteSets, TLC

VARIABLES
    cwd,             \* line 167: current remote directory
    entries,         \* line 204: the listing shown
    selected,        \* line 168: cursor, 0-based index into entries
    page_start,      \* line 183: first visible row
    selected_files,  \* line 169: marked names
    message,         \* line 170: message[0], the status line
    active_procs,    \* line 171: live process handles
    output_lines,    \* line 172: raw output pane
    procs,           \* the transfers launched so far: process, reader thread, request
    batches,         \* the coroutines of the 'd' binding started so far
    app,             \* "running" until the 'q' binding ends the process
    remote,          \* the environment: the remote tree and the tool's verbosity
    signalled,       \* history: handles the 'q' binding sent SIGKILL to
    raised,          \* history: the exception that left the latest step, or "none"
    toggles,         \* history: the marked sets before the latest consecutive space events
    nlines,          \* history: number of lines appended to output_lines so far
    ssh              \* history: the remote commands run at startup and by the latest
                     \* listing, each with its outcome

vars == <<cwd, entries, selected, page_start, selected_files, message,
          active_procs, output_lines, procs, batches, app, remote,
          signalled, raised, toggles, nlines, ssh>>

-----------------------------------------------------------------------------
(* Bounds of the model *)

\* download key presses per run
MaxBatches == 2
\* transfers launched per run
MaxProcs == 2
\* output lines the transfer tool prints per run (short-output environment)
MaxLines == 1
\* lines printed beyond the capacity of the output pane (long-output environment)
MaxExtra == 2
\* files of the large directory beyond one page
MaxOver == 3

(* Program constants *)

page_size == 20
LogLimit == 30

-----------------------------------------------------------------------------
(* Plain helpers *)

Max(a, b) == IF a >= b THEN a ELSE b
Min(a, b) == IF a <= b THEN a ELSE b
Range(s) == {s[i] : i \in 1..Len(s)}

-----------------------------------------------------------------------------
(* os.path on token sequences *)

Sep == "/"
Root == <<Sep>>

\* str.rstrip('/')
RECURSIVE Rstrip(_)
Rstrip(p) ==
    IF p # <<>> /\ p[Len(p)] = Sep THEN Rstrip(SubSeq(p, 1, Len(p) - 1)) ELSE p

\* p.rfind('/') + 1
LastSep(p) ==
    LET S == {i \in 1..Len(p) : p[i] = Sep} IN
    IF S = {} THEN 0 ELSE CHOOSE i \in S : \A j \in S : j <= i

\* posixpath.dirname
Dirname(p) ==
    LET head == SubSeq(p, 1, LastSep(p)) IN
    IF head # <<>> /\ (\E i \in 1..Len(head) : head[i] # Sep) THEN Rstrip(head) ELSE head

\* posixpath.join(a, b)
Join(a, b) ==
    IF b # <<>> /\ b[1] = Sep THEN b
    ELSE IF a = <<>> \/ a[Len(a)] = Sep THEN a \o b
    ELSE a \o <<Sep>> \o b

\* the components normpath keeps, folded left to right
RECURSIVE NormComps(_, _, _)
NormComps(p, acc, slashes) ==
    IF p = <<>> THEN acc
    ELSE LET c == Head(p) IN
         IF c = Sep \/ c = "." THEN NormComps(Tail(p), acc, slashes)
         ELSE IF c # ".."
                 \/ (~slashes /\ acc = <<>>)
                 \/ (acc # <<>> /\ acc[Len(acc)] = "..")
              THEN NormComps(Tail(p), Append(acc, c), slashes)
         ELSE IF acc # <<>> THEN NormComps(Tail(p), SubSeq(acc, 1, Len(acc) - 1), slashes)
         ELSE NormComps(Tail(p), acc, slashes)

\* '/'.join(comps)
RECURSIVE SlashJoin(_)
SlashJoin(comps) ==
    IF comps = <<>> THEN <<>>
    ELSE IF Len(comps) = 1 THEN <<comps[1]>>
    ELSE <<comps[1], Sep>> \o SlashJoin(Tail(comps))

\* number of leading separators normpath keeps
InitialSlashes(p) ==
    IF p = <<>> \/ p[1] # Sep THEN 0
    ELSE IF Len(p) >= 2 /\ p[2] = Sep /\ ~(Len(p) >= 3 /\ p[3] = Sep) THEN 2
    ELSE 1

\* posixpath.normpath
Normpath(p) ==
    LET n == InitialSlashes(p)
        body == SlashJoin(NormComps(p, <<>>, n > 0))
        path == [i \in 1..n |-> Sep] \o body
        dot == <<".">> IN
    IF p = <<>> THEN dot ELSE IF path = <<>> THEN dot ELSE path

\* line 288 without its `or '/'`
ParentOfNoRoot(p) ==
    Dirname(Rstrip(p))

\* line 288: os.path.dirname(cwd.rstrip('/')) or '/'
ParentOf(p) ==
    LET d == Dirname(Rstrip(p)) IN IF d = <<>> THEN Root ELSE d

\* line 293: os.path.join(cwd, entry['name'])
ChildOf(p, name) == Join(p, <<name>>)

-----------------------------------------------------------------------------
(* The remote side: what the listing command answers *)

Dir(n) == [ftype |-> "d", name |-> n]
File(n) == [ftype |-> "-", name |-> n]

\* line 107-109: the synthetic parent entry
DotDot == Dir("..")

BigDirLen == 2 * page_size + MaxOver

\* the rows of a directory of the remote tree fs, as parse_ls_output yields them
Ls(fs, path) ==
    CASE fs = "pair" /\ path = Root -> <<File("a.txt"), File("b.txt")>>
      [] fs = "small" /\ path = Root -> <<Dir("u")>>
      [] fs = "small" /\ path = <<Sep, "u">> -> <<Dir("logs"), File("a.txt")>>
      [] fs = "big" /\ path = Root -> <<Dir("data")>>
      [] fs = "big" /\ path = <<Sep, "data">> -> [i \in 1..BigDirLen |-> File(ToString(i))]
      [] fs = "single" /\ path = Root -> <<File("a.txt")>>
      [] fs = "bare" /\ path = Root -> <<>>
      [] fs = "home" /\ path = Root -> <<Dir("h")>>
      [] fs = "home" /\ path = <<Sep, "h">> -> <<File("a.txt"), File("b.txt")>>
      [] OTHER -> <<>>

\* the directories of the remote tree fs
Exists(fs, path) ==
    \/ path = Root
    \/ fs = "small" /\ path \in {<<Sep, "u">>, <<Sep, "u", Sep, "logs">>}
    \/ fs = "big" /\ path = <<Sep, "data">>
    \/ fs = "home" /\ path = <<Sep, "h">>

\* a remote command that was run, and whether it exited with status 0
Ran(cmd, ok) == [cmd |-> cmd, ok |-> ok]

\* The commands cmds run in order, outs[i] telling whether the i-th exits with
\* status 0, up to and including the first that does: the log of what was run.
RECURSIVE UntilOk(_, _, _, _)
UntilOk(cmds, outs, i, log) ==
    IF i > Len(cmds) THEN log
    ELSE IF outs[i] THEN Append(log, Ran(cmds[i], TRUE))
    ELSE UntilOk(cmds, outs, i + 1, Append(log, Ran(cmds[i], FALSE)))

AnyOk(outs) == \E i \in DOMAIN outs : outs[i]

\* lines 27-29 and 34-37: the probe, then the install commands
StartupCmds == <<"command -v rsync", "apt-get install rsync", "yum install rsync">>

\* check_and_install_rsync, lines 30-43, without the returns of lines 32 and 43
StartupAttemptsNoReturn(outs) ==
    [i \in DOMAIN StartupCmds |-> Ran(StartupCmds[i], outs[i])]

\* check_and_install_rsync, lines 30-43: the commands it runs
StartupAttempts(outs) ==
    UntilOk(StartupCmds, outs, 1, <<>>)

\* line 87
LsBins == <<"/bin/ls", "/usr/bin/ls", "ls">>

\* lines 88-91: for every binary the long-iso command, then the plain one
LsCmds ==
    [i \in 1..(Len(LsBins) + Len(LsBins)) |->
        [bin |-> LsBins[(i + 1) \div 2], iso |-> i % 2 = 1]]

\* lines 93-102 without the break of line 99
LsAttemptsNoBreak(outs) ==
    [i \in DOMAIN LsCmds |-> Ran(LsCmds[i], outs[i])]

\* lines 93-102: the commands get_entries runs
LsAttempts(outs) ==
    UntilOk(LsCmds, outs, 1, <<>>)

\* What the listing commands can do on the host of the remote tree fs: on the
\* hosts of the download sessions all of them work or, the connection being
\* down, none does; on the others each one works or fails on its own.
LsOutcomes(fs) ==
    IF fs \in {"small", "bare"} THEN [DOMAIN LsCmds -> BOOLEAN]
    ELSE {[i \in DOMAIN LsCmds |-> TRUE], [i \in DOMAIN LsCmds |-> FALSE]}

Failed == [ok |-> FALSE, rows |-> <<>>]
Listed(rows) == [ok |-> TRUE, rows |-> rows]

\* What lines 92-105 of get_entries can obtain for a path: Failed when every
\* listing command failed, else the parsed rows.  A remote listing command is
\* free to print a ".." row of its own, also for the root.
RemoteAnswers(fs, path) ==
    {Failed}
      \cup (IF Exists(fs, path) THEN {Listed(Ls(fs, path))} ELSE {})
      \cup (IF fs = "small" /\ path = Root THEN {Listed(<<DotDot>> \o Ls(fs, path))} ELSE {})

\* lines 103-110 of get_entries, given what the remote answered
GetEntries(path, answer) ==
    IF ~answer.ok THEN <<>>
    ELSE IF path # Root THEN <<DotDot>> \o answer.rows
    ELSE answer.rows

\* line 47-55: get_remote_home yields the remote home or '/'
StartPaths(fs) ==
    CASE fs = "pair" -> {Root}
      [] fs = "small" -> {<<Sep, "u", Sep, "logs">>}
      [] fs = "big" -> {<<Sep, "data">>}
      [] fs = "single" -> {Root}
      [] fs = "bare" -> {Root}
      [] fs = "home" -> {<<Sep, "h">>}

-----------------------------------------------------------------------------
(* Cursor movement: each yields <<selected, page_start>> *)

\* lines 245-248
CursorUp(sel, ps) ==
    IF sel > 0
    THEN <<sel - 1, IF sel - 1 < ps THEN Max(0, sel - 1) ELSE ps>>
    ELSE <<sel, ps>>

\* lines 253-256 without the scroll of lines 255-256
CursorDownNoScroll(sel, ps, n) ==
    IF sel < n - 1 THEN <<sel + 1, ps>> ELSE <<sel, ps>>

\* lines 253-256
CursorDown(sel, ps, n) ==
    IF sel < n - 1
    THEN <<sel + 1, IF sel + 1 >= ps + page_size THEN sel + 1 - page_size + 1 ELSE ps>>
    ELSE <<sel, ps>>

\* lines 261-263
CursorPageUp(sel, ps) ==
    IF sel > 0
    THEN <<Max(0, sel - page_size), Max(0, ps - page_size)>>
    ELSE <<sel, ps>>

\* lines 268-272 without the min() of line 269
CursorPageDownNoClamp(sel, ps, n) ==
    IF sel < n - 1
    THEN LET s2 == sel + page_size
             p2 == Min(Max(0, n - page_size), ps + page_size)
         IN <<s2, IF s2 >= p2 + page_size THEN s2 - page_size + 1 ELSE p2>>
    ELSE <<sel, ps>>

\* lines 268-272
CursorPageDown(sel, ps, n) ==
    IF sel < n - 1
    THEN LET s2 == Min(n - 1, sel + page_size)
             p2 == Min(Max(0, n - page_size), ps + page_size)
         IN <<s2, IF s2 >= p2 + page_size THEN s2 - page_size + 1 ELSE p2>>
    ELSE <<sel, ps>>

\* lines 278-281 without the discard of line 279
ToggleAddOnly(marked, n) ==
    marked \cup {n}

\* lines 278-281
Toggle(marked, n) ==
    IF n \in marked THEN marked \ {n} ELSE marked \cup {n}

-----------------------------------------------------------------------------
(* The transfer engine's pure parts *)

NoMessage == <<>>
Complete == <<"transfer complete">>
TransferFailed == <<"transfer failed">>

\* the to-chk=<remaining>/<total> tokens a line may carry; <<>> is a line without one
ProgressMarks == {<<>>, <<1, 2>>}

\* lines 126-133
ParseFileProgress(mark) ==
    IF mark = <<>> THEN NoMessage
    ELSE <<"progress", mark[2] - mark[1], mark[2]>>

\* the exit codes of the transfer tool the model distinguishes
ExitCodes == {0, 1}

\* lines 155-158 without the test of the exit code
TerminalStatusIgnoringCode(rc) ==
    Complete

\* lines 155-158
TerminalStatus(rc) ==
    IF rc = 0 THEN Complete ELSE TransferFailed

\* lines 150-154: list.remove, absence swallowed
RemoveProc(active, p) ==
    SelectSeq(active, LAMBDA q : q # p)

\* lines 229-231: the list after an append has been followed by the eviction
Evict(lines) ==
    IF Len(lines) > LogLimit THEN Tail(lines) ELSE lines

\* lines 312-316 with a sweep that stops after the first handle
KillFirst(active) ==
    IF active = <<>> THEN <<>> ELSE <<active[1]>>

\* lines 312-316: the handles the quit sweep signals, in order
KillAll(active) ==
    active

\* lines 116-125, 134: the transfer launched for name n from directory dir
NewProc(dir, n) ==
    [ state |-> "running", rc |-> 0, reader |-> "read",
      remote_path |-> Normpath(Join(dir, <<n>>)), local_path |-> Normpath(<<".">>) ]

\* a transfer after line 158: the process is reaped, the request is gone
Reaped ==
    [ state |-> "reaped", rc |-> 0, reader |-> "done",
      remote_path |-> <<>>, local_path |-> <<>> ]

\* line 298: the coroutine of one download key press, not yet run.  P and M
\* is history, the directory at the key press; todo, the names marked at the
\* key press it has launched no transfer for yet; extra, that it launched a
\* transfer for another name or a second one for a name; quiet, that no key
\* event came since the key press.
NewBatch(dir, marked) ==
    [ status |-> "scheduled", P |-> dir, todo |-> marked, extra |-> FALSE,
      used |-> 0, behind |-> {}, cur |-> 0, quiet |-> TRUE ]

\* a coroutine that has ended, by return ("done") or by exception ("raised")
Ended(how) ==
    [ status |-> how, P |-> <<>>, todo |-> {}, extra |-> FALSE,
      used |-> 0, behind |-> {}, cur |-> 0, quiet |-> TRUE ]

Unfinished(bt) == bt.status \in {"scheduled", "running"}

\* history: a key event reached the loop while these batches were in progress
KeyTouch(B) ==
    [i \in DOMAIN B |-> IF Unfinished(B[i]) THEN [B[i] EXCEPT !.quiet = FALSE] ELSE B[i]]

-----------------------------------------------------------------------------
(* Initial state: lines 167-172, 183, 204 *)

InitIn(envs) ==
    /\ remote \in envs
    /\ cwd \in StartPaths(remote.fs)
    /\ \E answer \in RemoteAnswers(remote.fs, cwd), outs \in LsOutcomes(remote.fs) :
          /\ answer.ok <=> AnyOk(outs)
          /\ entries = GetEntries(cwd, answer)
          /\ ssh = [startup |-> <<Ran(StartupCmds[1], TRUE)>>, listing |-> LsAttempts(outs)]
    /\ selected = 0
    /\ page_start = 0
    /\ selected_files = {}
    /\ message = NoMessage
    /\ active_procs = <<>>
    /\ output_lines = <<>>
    /\ procs = <<>>
    /\ batches = <<>>
    /\ app = "running"
    /\ signalled = <<>>
    /\ raised = "none"
    /\ toggles = <<>>
    /\ nlines = 0

Init == InitIn({[fs |-> "pair", out |-> MaxLines]})

engine == <<active_procs, output_lines, procs, nlines, signalled>>

-----------------------------------------------------------------------------
(* Key handlers of the event loop *)

\* lines 242-249
Up ==
    /\ app = "running"
    /\ selected' = CursorUp(selected, page_start)[1]
    /\ page_start' = CursorUp(selected, page_start)[2]
    /\ batches' = KeyTouch(batches)
    /\ toggles' = <<>>
    /\ raised' = "none"
    /\ UNCHANGED <<cwd, entries, selected_files, message, engine, app, remote, ssh>>

\* lines 250-257
Down ==
    /\ app = "running"
    /\ selected' = CursorDown(selected, page_start, Len(entries))[1]
    /\ page_start' = CursorDown(selected, page_start, Len(entries))[2]
    /\ batches' = KeyTouch(batches)
    /\ toggles' = <<>>
    /\ raised' = "none"
    /\ UNCHANGED <<cwd, entries, selected_files, message, engine, app, remote, ssh>>

\* lines 258-264
PageUp ==
    /\ app = "running"
    /\ selected' = CursorPageUp(selected, page_start)[1]
    /\ page_start' = CursorPageUp(selected, page_start)[2]
    /\ batches' = KeyTouch(batches)
    /\ toggles' = <<>>
    /\ raised' = "none"
    /\ UNCHANGED <<cwd, entries, selected_files, message, engine, app, remote, ssh>>

\* lines 265-273
PageDown ==
    /\ app = "running"
    /\ selected' = CursorPageDown(selected, page_start, Len(entries))[1]
    /\ page_start' = CursorPageDown(selected, page_start, Len(entries))[2]
    /\ batches' = KeyTouch(batches)
    /\ toggles' = <<>>
    /\ raised' = "none"
    /\ UNCHANGED <<cwd, entries, selected_files, message, engine, app, remote, ssh>>

\* The effect of a toggle of name n on the iterator of a batch in progress: a
\* removed name is no longer met; an added name lands in a slot of the set's
\* table either behind the iterator's position or ahead of it.
Retarget(B, n, added, behindIn) ==
    [i \in DOMAIN B |->
        IF B[i].status # "running" THEN B[i]
        ELSE IF added /\ i \in behindIn THEN [B[i] EXCEPT !.behind = @ \cup {n}]
        ELSE [B[i] EXCEPT !.behind = @ \ {n}]]

\* lines 274-282; entries[selected] raises IndexError on an empty listing
Space ==
    /\ app = "running"
    /\ IF entries = <<>>
       THEN /\ raised' = "IndexError"
            /\ batches' = KeyTouch(batches)
            /\ toggles' = <<>>
            /\ UNCHANGED selected_files
       ELSE LET n == entries[selected + 1].name IN
            /\ selected_files' = Toggle(selected_files, n)
            /\ \E behindIn \in SUBSET {i \in DOMAIN batches : batches[i].status = "running"} :
                  /\ n \in selected_files => behindIn = {}
                  /\ batches' = Retarget(KeyTouch(batches), n, n \notin selected_files, behindIn)
            /\ toggles' = IF Len(toggles) < 2 THEN Append(toggles, selected_files)
                          ELSE <<toggles[2], selected_files>>
            /\ raised' = "none"
    /\ UNCHANGED <<cwd, entries, selected, page_start, message, engine, app, remote, ssh>>

\* lines 237-241 with 289-290 / 294-295: update_entries once cwd is set to dir
UpdateEntries(dir) ==
    /\ cwd' = dir
    /\ \E answer \in RemoteAnswers(remote.fs, dir), outs \in LsOutcomes(remote.fs) :
          /\ answer.ok <=> AnyOk(outs)
          /\ entries' = GetEntries(dir, answer)
          /\ ssh' = [ssh EXCEPT !.listing = LsAttempts(outs)]
    /\ page_start' = 0
    /\ selected' = 0

\* lines 283-296
Enter ==
    /\ app = "running"
    /\ batches' = KeyTouch(batches)
    /\ toggles' = <<>>
    /\ IF entries = <<>>
       THEN /\ raised' = "IndexError"
            /\ UNCHANGED <<cwd, entries, selected, page_start, ssh>>
       ELSE LET entry == entries[selected + 1] IN
            /\ raised' = "none"
            /\ IF entry.name = ".." THEN UpdateEntries(ParentOf(cwd))
               ELSE IF entry.ftype = "d" THEN UpdateEntries(ChildOf(cwd, entry.name))
               ELSE UNCHANGED <<cwd, entries, selected, page_start, ssh>>
    /\ UNCHANGED <<selected_files, message, engine, app, remote>>

\* lines 306-309: any key without a binding of its own
AnyKey ==
    /\ app = "running"
    /\ batches' = KeyTouch(batches)
    /\ toggles' = <<>>
    /\ raised' = "none"
    /\ message' = IF message # NoMessage THEN NoMessage ELSE message
    /\ UNCHANGED <<cwd, entries, selected, page_start, selected_files, engine, app, remote, ssh>>

\* lines 297-298: the binding is a coroutine function; the key processor
\* schedules it as a task of the loop and returns
Download ==
    /\ app = "running"
    /\ Len(batches) < MaxBatches
    /\ batches' = Append(KeyTouch(batches), NewBatch(cwd, selected_files))
    /\ toggles' = <<>>
    /\ raised' = "none"
    /\ UNCHANGED <<cwd, entries, selected, page_start, selected_files, message, engine, app,
                   remote, ssh>>

\* lines 310-319
Quit ==
    /\ app = "running"
    /\ signalled' = KillAll(active_procs)
    /\ app' = "exited"
    /\ batches' = KeyTouch(batches)
    /\ toggles' = <<>>
    /\ raised' = "none"
    /\ UNCHANGED <<cwd, entries, selected, page_start, selected_files, message, active_procs,
                   output_lines, procs, nlines, remote, ssh>>

-----------------------------------------------------------------------------
(* The coroutine of the 'd' binding, lines 299-305, with rsync_pull inlined *)

\* One turn of `for n in selected_files` for batch b, from the values P, A the
\* step has produced so far, up to the next suspension (line 147) or the end
\* of the coroutine:
\*   - the set's size differs from the size the iterator was made with:
\*     RuntimeError leaves the coroutine, lines 304-305 are not run;
\*   - a name is ahead of the iterator: lines 300-303 and 116-145 launch its
\*     transfer and register the handle;
\*   - none is: lines 304-305 clear the marks.
Advance(b, used, P, A) ==
    LET it == batches[b] IN
    IF Cardinality(selected_files) # used
    THEN /\ batches' = [batches EXCEPT ![b] = Ended("raised")]
         /\ raised' = "RuntimeError"
         /\ procs' = P
         /\ active_procs' = A
         /\ UNCHANGED selected_files
    ELSE IF selected_files \ it.behind # {}
    THEN /\ Len(P) < MaxProcs
         /\ \E n \in selected_files \ it.behind :
               /\ procs' = Append(P, NewProc(cwd, n))
               /\ active_procs' = Append(A, Len(P) + 1)
               /\ batches' = [batches EXCEPT ![b].status = "running",
                                             ![b].used = used,
                                             ![b].behind = @ \cup {n},
                                             ![b].cur = Len(P) + 1,
                                             ![b].todo = @ \ {n},
                                             ![b].extra = @ \/ n \notin it.todo]
         /\ raised' = "none"
         /\ UNCHANGED selected_files
    ELSE /\ selected_files' = {}
         /\ batches' = [i \in DOMAIN batches |->
                           IF i = b THEN Ended("done")
                           ELSE [batches[i] EXCEPT !.behind = {}]]
         /\ procs' = P
         /\ active_procs' = A
         /\ raised' = "none"

\* line 299: the task starts, iter(selected_files) is made
BatchStart(b) ==
    /\ app = "running"
    /\ b \in DOMAIN batches
    /\ batches[b].status = "scheduled"
    /\ Advance(b, Cardinality(selected_files), procs, active_procs)
    /\ toggles' = <<>>
    /\ UNCHANGED <<cwd, entries, selected, page_start, message, output_lines, nlines,
                   signalled, app, remote, ssh>>

\* lines 146-158 with a transfer that raises when the tool fails, so that the
\* exception leaves the loop of line 299
BatchPollAbortOnFailure(b) ==
    /\ app = "running"
    /\ b \in DOMAIN batches
    /\ batches[b].status = "running"
    /\ \A i \in DOMAIN batches : batches[i].status # "scheduled"
    /\ LET p == batches[b].cur
           rc == procs[p].rc
           A == RemoveProc(active_procs, p) IN
       /\ procs[p].reader = "done"
       /\ procs[p].state = "exited"
       /\ message' = TerminalStatus(rc)
       /\ IF rc = 0
          THEN Advance(b, batches[b].used, [procs EXCEPT ![p] = Reaped], A)
          ELSE /\ batches' = [batches EXCEPT ![b] = Ended("raised")]
               /\ raised' = "CalledProcessError"
               /\ procs' = [procs EXCEPT ![p] = Reaped]
               /\ active_procs' = A
               /\ UNCHANGED selected_files
    /\ toggles' = <<>>
    /\ UNCHANGED <<cwd, entries, selected, page_start, output_lines, nlines, signalled,
                   app, remote, ssh>>

\* lines 146-158 without t.is_alive() and t.join(): the process exited, the
\* reader thread may still run
BatchPollNoJoin(b) ==
    /\ app = "running"
    /\ b \in DOMAIN batches
    /\ batches[b].status = "running"
    /\ \A i \in DOMAIN batches : batches[i].status # "scheduled"
    /\ LET p == batches[b].cur
           rc == procs[p].rc
           A == RemoveProc(active_procs, p) IN
       /\ procs[p].state = "exited"
       /\ message' = TerminalStatus(rc)
       /\ Advance(b, batches[b].used, [procs EXCEPT ![p] = Reaped], A)
    /\ toggles' = <<>>
    /\ UNCHANGED <<cwd, entries, selected, page_start, output_lines, nlines, signalled,
                   app, remote, ssh>>

\* lines 146-158 once the sleep of line 147 finds the reader thread ended and
\* the process exited, then the next turn of the loop of line 299.  The sleep
\* is a timer of the loop: a coroutine scheduled before it ends has started
\* by then.
BatchPoll(b) ==
    /\ app = "running"
    /\ b \in DOMAIN batches
    /\ batches[b].status = "running"
    /\ \A i \in DOMAIN batches : batches[i].status # "scheduled"
    /\ LET p == batches[b].cur
           rc == procs[p].rc
           A == RemoveProc(active_procs, p) IN
       /\ procs[p].reader = "done"
       /\ procs[p].state = "exited"
       /\ message' = TerminalStatus(rc)
       /\ Advance(b, batches[b].used, [procs EXCEPT ![p] = Reaped], A)
    /\ toggles' = <<>>
    /\ UNCHANGED <<cwd, entries, selected, page_start, output_lines, nlines, signalled,
                   app, remote, ssh>>

-----------------------------------------------------------------------------
(* The transfer tool's process and its reader thread *)

\* the process ends with exit code rc; it stays a zombie until line 146 or
\* 149 reaps it
ProcExit(p, rc) ==
    /\ app = "running"
    /\ p \in DOMAIN procs
    /\ procs[p].state = "running"
    /\ procs' = [procs EXCEPT ![p].state = "exited", ![p].rc = rc]
    /\ UNCHANGED <<cwd, entries, selected, page_start, selected_files, message, active_procs,
                   output_lines, batches, app, remote, ssh, signalled, raised, toggles, nlines>>

\* lines 138-140 and 229: a line is read and appended to the list
ReaderAppend(p) ==
    /\ app = "running"
    /\ p \in DOMAIN procs
    /\ procs[p].reader = "read"
    /\ nlines < remote.out
    /\ procs' = [procs EXCEPT ![p].reader = "appended"]
    /\ output_lines' = Append(output_lines, nlines + 1)
    /\ nlines' = nlines + 1
    /\ UNCHANGED <<cwd, entries, selected, page_start, selected_files, message, active_procs,
                   batches, app, remote, ssh, signalled, raised, toggles>>

\* lines 230-236 and 141-143 with 221-227: the eviction, then the status write
\* when the line carries a progress token; asyncio.get_running_loop() raises
\* in a thread that runs no loop, so refresh is called in the reader thread
ReaderStatus(p) ==
    /\ app = "running"
    /\ p \in DOMAIN procs
    /\ procs[p].reader = "appended"
    /\ output_lines' = Evict(output_lines)
    /\ \E mark \in ProgressMarks :
          message' = IF ParseFileProgress(mark) # NoMessage THEN ParseFileProgress(mark)
                     ELSE message
    /\ procs' = [procs EXCEPT ![p].reader = "read"]
    /\ UNCHANGED <<cwd, entries, selected, page_start, selected_files, active_procs,
                   batches, app, remote, ssh, signalled, raised, toggles, nlines>>

\* line 138: the stream ends, the thread returns
ReaderEOF(p) ==
    /\ app = "running"
    /\ p \in DOMAIN procs
    /\ procs[p].reader = "read"
    /\ procs' = [procs EXCEPT ![p].reader = "done"]
    /\ UNCHANGED <<cwd, entries, selected, page_start, selected_files, message, active_procs,
                   output_lines, batches, app, remote, ssh, signalled, raised, toggles, nlines>>

-----------------------------------------------------------------------------
(* Specifications.  Each one is an operator's session: a remote tree, a      *)
(* transfer tool and the keys the operator uses.                             *)

\* the coroutines, and a transfer tool that prints nothing
Transfers ==
    \/ \E b \in 1..MaxBatches : BatchStart(b)
    \/ \E b \in 1..MaxBatches : BatchPoll(b)
    \/ \E p \in 1..MaxProcs, rc \in ExitCodes : ProcExit(p, rc)
    \/ \E p \in 1..MaxProcs : ReaderEOF(p)

\* the reader threads of a transfer tool that prints
Readers ==
    \/ \E p \in 1..MaxProcs : ReaderAppend(p)
    \/ \E p \in 1..MaxProcs : ReaderStatus(p)

\* A download session in a directory of two files: the operator walks down
\* the list, marks, downloads, dismisses messages and quits; the tool prints
\* up to MaxLines lines.
Next ==
    \/ Down
    \/ Space
    \/ Download
    \/ AnyKey
    \/ Quit
    \/ Transfers
    \/ Readers

Spec == Init /\ [][Next]_vars

\* A download session on a single file with a tool that prints nothing.
InitOne == InitIn({[fs |-> "single", out |-> 0]})

NextOne ==
    \/ Space
    \/ Download
    \/ AnyKey
    \/ Quit
    \/ Transfers

SpecOne == InitOne /\ [][NextOne]_vars

\* An operator who only navigates: a three-level tree, and a directory larger
\* than two pages.
InitNav == InitIn({[fs |-> "small", out |-> 0], [fs |-> "big", out |-> 0]})

NextNav ==
    \/ Up
    \/ Down
    \/ PageUp
    \/ PageDown
    \/ Enter
    \/ AnyKey
    \/ Quit

SpecNav == InitNav /\ [][NextNav]_vars

\* An operator who navigates the three-level tree and marks entries.
InitMark == InitIn({[fs |-> "small", out |-> 0]})

NextMark ==
    \/ Up
    \/ Down
    \/ Space
    \/ Enter

SpecMark == InitMark /\ [][NextMark]_vars

\* A download session on a single file with a tool that prints more lines
\* than the output pane keeps.
InitLog == InitIn({[fs |-> "single", out |-> LogLimit + MaxExtra]})

NextLog ==
    \/ Space
    \/ Download
    \/ Transfers
    \/ Readers

SpecLog == InitLog /\ [][NextLog]_vars

\* The 'd' key of an operator who waits for a batch to end before starting
\* the next one.
DownloadIdle ==
    /\ \A i \in DOMAIN batches : ~Unfinished(batches[i])
    /\ Download

\* A download session in a directory of two files, one batch at a time.
InitSeq == InitIn({[fs |-> "pair", out |-> MaxLines]})

NextSeq ==
    \/ Down
    \/ Space
    \/ DownloadIdle
    \/ AnyKey
    \/ Transfers
    \/ Readers

SpecSeq == InitSeq /\ [][NextSeq]_vars

\* A download session in a home directory of two files with a tool that
\* prints nothing: the operator marks, downloads one batch at a time and keeps
\* navigating.
InitRoam == InitIn({[fs |-> "home", out |-> 0]})

NextRoam ==
    \/ Down
    \/ Space
    \/ Enter
    \/ DownloadIdle
    \/ Transfers

SpecRoam == InitRoam /\ [][NextRoam]_vars

\* A download session in a directory of two files with a tool that prints
\* nothing, one batch at a time, no quit.  The event loop runs every coroutine that is
\* ready (lines 146-147, 299); every process of the transfer tool exits and
\* its output ends, so that its reader thread returns (line 138).  Nothing
\* makes the operator press a key.
InitFair == InitIn({[fs |-> "pair", out |-> 0]})

NextFair ==
    \/ Down
    \/ Space
    \/ DownloadIdle
    \/ Transfers

Fairness ==
    /\ \A b \in 1..MaxBatches : WF_vars(BatchStart(b)) /\ WF_vars(BatchPoll(b))
    /\ \A p \in 1..MaxProcs : WF_vars(\E rc \in ExitCodes : ProcExit(p, rc))
    /\ \A p \in 1..MaxProcs : WF_vars(ReaderEOF(p))

SpecFair == InitFair /\ [][NextFair]_vars /\ Fairness

-----------------------------------------------------------------------------
(* The program from its start, lines 341-350 *)

\* the process exit status: sys.exit(1) of line 45, os._exit(0) of line 319
ExitStatus(a) == IF a = "aborted" THEN 1 ELSE 0

\* line 348: check_and_install_rsync, lines 25-45
CheckAndInstallRsync ==
    /\ app = "startup"
    /\ \E outs \in [DOMAIN StartupCmds -> BOOLEAN] :
          /\ ssh' = [ssh EXCEPT !.startup = StartupAttempts(outs)]
          /\ app' = IF AnyOk(outs) THEN "checked" ELSE "aborted"
    /\ UNCHANGED <<cwd, entries, selected, page_start, selected_files, message, active_procs,
                   output_lines, procs, batches, remote, signalled, raised, toggles, nlines>>

\* lines 349-350 and 167-204: the home directory, the first listing, the UI
StartBrowse ==
    /\ app = "checked"
    /\ app' = "running"
    /\ \E dir \in StartPaths(remote.fs) : UpdateEntries(dir)
    /\ UNCHANGED <<selected_files, message, active_procs, output_lines, procs, batches,
                   remote, signalled, raised, toggles, nlines>>

\* the program before line 348
InitBoot ==
    /\ remote \in {[fs |-> "small", out |-> 0], [fs |-> "bare", out |-> 0]}
    /\ app = "startup"
    /\ ssh = [startup |-> <<>>, listing |-> <<>>]
    /\ cwd = Root
    /\ entries = <<>>
    /\ selected = 0
    /\ page_start = 0
    /\ selected_files = {}
    /\ message = NoMessage
    /\ active_procs = <<>>
    /\ output_lines = <<>>
    /\ procs = <<>>
    /\ batches = <<>>
    /\ signalled = <<>>
    /\ raised = "none"
    /\ toggles = <<>>
    /\ nlines = 0

NextBoot ==
    \/ CheckAndInstallRsync
    \/ StartBrowse
    \/ Down
    \/ Enter
    \/ Quit

SpecBoot == InitBoot /\ [][NextBoot]_vars

-----------------------------------------------------------------------------
(* Properties of the browser *)

\* the names of the directories on the way to p
Components(p) == SelectSeq(p, LAMBDA t : t # Sep)

\* the absolute path of the directory reached through comps
AbsPath(comps) ==
    IF comps = <<>> THEN Root
    ELSE [i \in 1..(2 * Len(comps)) |-> IF i % 2 = 1 THEN Sep ELSE comps[i \div 2]]

Front(q) == SubSeq(q, 1, Len(q) - 1)

\* C1: the cursor index is never negative and never beyond the last entry of
\* the listing: it lies in 0 .. max(0, number of entries - 1), whatever keys
\* were pressed and whatever the listings returned.
CursorInRange ==
    /\ selected >= 0
    /\ selected <= Max(0, Len(entries) - 1)

\* the cursor stands on the last entry of a directory of more than two pages
CursorAtBottomOfLongList ==
    /\ Len(entries) > 2 * page_size
    /\ selected = Len(entries) - 1

\* C2: whenever the current directory changes, the set of marked names is
\* empty afterwards.
MarksClearedOnChdir ==
    [][cwd' # cwd => selected_files' = {}]_vars

\* C3: at most one transfer is registered as live at any time (a second
\* download key press while a batch is in progress starts nothing).
AtMostOneLive ==
    Len(active_procs) <= 1

\* C4: the step that finalises a transfer sets the status message to the
\* completed message when the tool's exit code is 0 and to the failed message
\* when it is not, and the transfer's handle, registered until then, is
\* registered no longer.
ExitCodeDecidesStatus ==
    [][\A p \in DOMAIN procs :
          (procs[p].state = "exited" /\ procs'[p].state = "reaped") =>
              /\ procs[p].rc = 0 => message' = <<"transfer complete">>
              /\ procs[p].rc # 0 => message' = <<"transfer failed">>
              /\ p \in Range(active_procs)
              /\ p \notin Range(active_procs')]_vars

\* a transfer whose tool failed has been finalised
FailedTransferFinalised ==
    /\ message = <<"transfer failed">>
    /\ \E p \in DOMAIN procs : procs[p].state = "reaped" /\ p \notin Range(active_procs)

\* C5: quit can be pressed in every state of the running browser; once
\* pressed, every handle then registered was signalled exactly once, in
\* order, whether its process was still running or had exited already, and
\* the program has ended: no handler and no coroutine takes a further step.
QuitSignalsEveryHandle ==
    /\ app = "running" => ENABLED Quit /\ signalled = <<>>
    /\ app = "exited" =>
          /\ Len(signalled) = Len(active_procs)
          /\ \A i \in 1..Len(active_procs) : signalled[i] = active_procs[i]
          /\ \A i, j \in 1..Len(signalled) : signalled[i] = signalled[j] => i = j
          /\ ~ENABLED NextOne

\* quit was pressed with two handles registered, one of a process that had
\* exited already
QuitWithTwoHandles ==
    /\ app = "exited"
    /\ Len(signalled) = 2
    /\ \E i \in 1..2 : procs[signalled[i]].state = "exited"
    /\ \E i \in 1..2 : procs[signalled[i]].state = "running"

\* C6: a batch that no key event disturbs launches transfers only for names
\* marked at its key press, each once, from the directory of the key press to
\* ".", the next one only after the previous one was finalised; it ends
\* normally, having launched one for every such name, and the set of marked
\* names is empty when it ends.
BatchLaunchesMarkedOnce ==
    [][\A b \in DOMAIN batches :
          LET old == batches[b]
              new == batches'[b] IN
          (Unfinished(old) /\ old.quiet) =>
              /\ (Unfinished(new) /\ new.cur # old.cur) =>
                    /\ old.cur # 0 => old.cur \notin Range(active_procs')
                    /\ new.cur \in Range(active_procs')
                    /\ procs'[new.cur].local_path = <<".">>
                    /\ ~new.extra
                    /\ \E n \in old.todo :
                          /\ new.todo = old.todo \ {n}
                          /\ procs'[new.cur].remote_path = AbsPath(Components(old.P) \o <<n>>)
              /\ ~Unfinished(new) =>
                    /\ new.status = "done"
                    /\ old.todo = {}
                    /\ ~old.extra
                    /\ selected_files' = {}]_vars

\* C7: a step of a reader thread writes neither the status message nor the
\* output lines: the event loop is their only writer.
ReaderNeverWrites ==
    [][(\E p \in DOMAIN procs : procs'[p].reader # procs[p].reader) =>
          /\ message' = message
          /\ output_lines' = output_lines]_vars

\* C8: after two presses of the mark key with no other event in between, the
\* set of marked names is the set it was before the first press.
ToggleTwiceRestores ==
    Len(toggles) = 2 => selected_files = toggles[1]

\* the mark key was pressed twice in a row with names marked before
ToggledTwiceFromNonEmpty ==
    /\ Len(toggles) = 2
    /\ toggles[1] # {}

\* C9: enter on the ".." entry makes the parent directory the current one:
\* the path without its last component, and the root's parent is the root.
EnterOnDotDot ==
    [][(Enter /\ entries # <<>> /\ entries[selected + 1].name = "..") =>
          cwd' = IF Components(cwd) = <<>> THEN Root
                 ELSE AbsPath(Front(Components(cwd)))]_vars

\* the root of the three-level tree, reached from its innermost directory
ClimbedToRoot ==
    /\ remote.fs = "small"
    /\ cwd = Root

\* C10: the output pane never holds more than LogLimit lines, and it holds
\* the last lines the tool printed, in order.
LogIsLastLines ==
    /\ Len(output_lines) <= LogLimit
    /\ output_lines = [i \in 1..Min(nlines, LogLimit) |-> nlines - Min(nlines, LogLimit) + i]

\* C11: when the transfer a batch waits for is finalised with a non-zero exit
\* code, the status message becomes the failed message and the batch, if no
\* key event came since its key press, goes on: with names left it launches
\* the transfer of one of them in the same step, with none left it ends
\* normally.
FailureDoesNotAbortBatch ==
    [][\A b \in DOMAIN batches :
          LET old == batches[b]
              new == batches'[b]
              p == old.cur IN
          (/\ old.status = "running"
           /\ old.quiet
           /\ procs[p].state = "exited"
           /\ procs[p].rc # 0
           /\ procs'[p].state = "reaped") =>
              /\ message' = <<"transfer failed">>
              /\ old.todo # {} =>
                    /\ new.status = "running"
                    /\ new.cur \notin DOMAIN procs
                    /\ \E n \in old.todo :
                          /\ new.todo = old.todo \ {n}
                          /\ procs'[new.cur].remote_path = AbsPath(Components(old.P) \o <<n>>)
              /\ old.todo = {} => new.status = "done"]_vars

\* the first transfer of a batch failed and the batch runs its second one
SecondTransferAfterFailure ==
    /\ message = <<"transfer failed">>
    /\ \E b \in DOMAIN batches :
          /\ batches[b].status = "running"
          /\ batches[b].quiet
          /\ batches[b].cur = 2
          /\ procs[1].state = "reaped"
          /\ procs[2].state = "running"

\* the latest listing ran its commands in the fixed order, the long-iso one
\* before the plain one for each binary in turn, and none after the first
\* that exited with status 0
ListingLogInOrder ==
    LET log == ssh.listing
        order == << <<"/bin/ls", TRUE>>, <<"/bin/ls", FALSE>>,
                    <<"/usr/bin/ls", TRUE>>, <<"/usr/bin/ls", FALSE>>,
                    <<"ls", TRUE>>, <<"ls", FALSE>> >> IN
    /\ Len(log) \in 1..Len(order)
    /\ \A i \in DOMAIN log : <<log[i].cmd.bin, log[i].cmd.iso>> = order[i]
    /\ \A i \in DOMAIN log : log[i].ok => i = Len(log)
    /\ Len(log) < Len(order) => log[Len(log)].ok

EveryListingFailed ==
    \A i \in DOMAIN ssh.listing : ~ssh.listing[i].ok

\* a step that lists a directory: the start of the UI, and enter on a
\* directory entry
ListingStep ==
    \/ StartBrowse
    \/ Enter /\ entries # <<>> /\ entries[selected + 1].ftype = "d"

\* C12 as stated: a listing runs its commands in the fixed order, none after
\* the first success, and it yields the empty sequence, raising nothing,
\* exactly when every command failed.
ListingEmptyIffAllFailed ==
    [][ListingStep =>
          (/\ ListingLogInOrder
           /\ raised = "none"
           /\ entries = <<>> <=> EveryListingFailed)']_vars

\* C12 amended: a listing runs its commands in the fixed order, none after
\* the first success, and raises nothing; when every command failed it yields
\* the empty sequence; when one succeeded it yields an empty sequence only
\* for the root, whose listing gets no ".." entry.
ListingEmptyWhenAllFailed ==
    [][ListingStep =>
          (/\ ListingLogInOrder
           /\ raised = "none"
           /\ EveryListingFailed => entries = <<>>
           /\ (entries = <<>> /\ ~EveryListingFailed) => cwd = Root)']_vars

\* a listing whose fifth command was the first to succeed
ListingFifthAttemptWorked ==
    /\ app = "running"
    /\ Len(ssh.listing) = 5
    /\ ssh.listing[5].ok
    /\ entries # <<>>

\* C13: the startup commands run in the order probe, first install command,
\* second install command, none after the first that succeeds; the UI is
\* entered only after one of them succeeded; when all three failed the
\* program has ended with a non-zero exit status, the UI was never entered and
\* nothing runs any more.
StartupGatesUI ==
    LET log == ssh.startup
        order == <<"command -v rsync", "apt-get install rsync", "yum install rsync">> IN
    /\ Len(log) <= Len(order)
    /\ \A i \in DOMAIN log : log[i].cmd = order[i]
    /\ \A i \in DOMAIN log : log[i].ok => i = Len(log)
    /\ app = "startup" <=> log = <<>>
    /\ app \in {"checked", "running", "exited"} => log # <<>> /\ log[Len(log)].ok
    /\ app = "aborted" <=> (Len(log) = Len(order) /\ \A i \in DOMAIN log : ~log[i].ok)
    /\ app = "aborted" =>
          /\ ExitStatus(app) # 0
          /\ ssh.listing = <<>>
          /\ entries = <<>>
          /\ ~ENABLED NextBoot

\* the UI runs after the probe and the first install command failed and the
\* second install command succeeded
UIAfterSecondInstall ==
    /\ app = "running"
    /\ Len(ssh.startup) = 3
    /\ ssh.startup[3].ok

\* C14: on a non-empty listing the cursor lies in the visible window:
\* page_start <= selected < page_start + page_size, with page_start >= 0,
\* whatever cursor and enter keys were pressed.
CursorInWindow ==
    entries # <<>> =>
        /\ page_start >= 0
        /\ page_start <= selected
        /\ selected < page_start + page_size

\* the window has scrolled down and the cursor stands on its last row
CursorOnLastRowOfScrolledWindow ==
    /\ entries # <<>>
    /\ page_start > 0
    /\ selected = page_start + page_size - 1

DotDotFirstBelowRoot ==
    cwd # Root =>
        /\ entries # <<>>
        /\ entries[1] = [ftype |-> "d", name |-> ".."]

\* C17: on an empty listing no key raises an error, and the mark and enter
\* keys leave the directory, the cursor, the window and the marks as they are.
EmptyListKeysAreNoOps ==
    [][entries = <<>> =>
          /\ raised' = "none"
          /\ (Space \/ Enter) =>
                UNCHANGED <<cwd, selected, page_start, selected_files>>]_vars

\* C18: every transfer a batch launches is for a name in the directory of
\* its key press: the remote path is that directory's path followed by the
\* name (its parent for the name ".."), wherever the operator has navigated
\* meanwhile.
RequestsUseDirOfKeyPress ==
    [][\A b \in DOMAIN batches :
          LET old == batches[b]
              new == batches'[b] IN
          (Unfinished(new) /\ new.cur # old.cur) =>
              \E n \in old.todo \cup selected_files :
                  procs'[new.cur].remote_path =
                      IF n = ".." THEN AbsPath(Front(Components(old.P)))
                      ELSE AbsPath(Components(old.P) \o <<n>>)]_vars

\* C19: a batch started while no other batch is in progress ends normally,
\* with no error raised, having launched exactly one transfer for every name
\* marked at its key press, whatever marks are toggled meanwhile.
TogglesDoNotDisturbBatch ==
    [][\A b \in DOMAIN batches :
          LET old == batches[b]
              new == batches'[b] IN
          /\ (Unfinished(old) /\ ~Unfinished(new)) =>
                /\ new.status = "done"
                /\ raised' = "none"
                /\ old.todo = {}
                /\ ~old.extra
          /\ (Unfinished(old) /\ Unfinished(new)) => ~new.extra]_vars

\* C20: every batch in progress eventually is over with no handle
\* registered any more and the set of marked names empty.  (A batch the model
\* cannot follow any further, its MaxProcs transfers being used up, is left
\* out.)
EveryBatchCompletes ==
    \A b \in 1..MaxBatches :
        (b \in DOMAIN batches /\ Unfinished(batches[b])) ~>
            \/ /\ b \in DOMAIN batches
               /\ ~Unfinished(batches[b])
               /\ active_procs = <<>>
               /\ selected_files = {}
            \/ Len(procs) = MaxProcs

=============================================================================
